---- MODULE Spec2Model ----
(***************************************************************************)
(* State-machine model of the screenshot indexing and search pipeline:     *)
(* database.py (the FTS5 index store and search), scanner.py (discovery    *)
(* and the scan loop), ocr_engine.py (text extraction) and the scan        *)
(* orchestration of main.py (start_scan / run_scan / scan_complete /       *)
(* scan_error) and its search box (do_search).                             *)
(*                                                                         *)
(* Spec is the scanner and the store under the application's scheduling;  *)
(* SpecSearch, SpecDiscover and SpecFolders are database.search,           *)
(* scanner.get_all_images and database.get_folders over inputs drawn from  *)
(* bounded sets; SpecUi is the search box.                                 *)
(*                                                                         *)
(* Strings of the program are sequences of tokens: a path is the sequence  *)
(* of its components and separators, a text the sequence of its words, so  *)
(* that "substring" is "contiguous subsequence" and the empty string is    *)
(* the empty sequence.                                                     *)
(***************************************************************************)
EXTENDS Integers, Sequences, FiniteSets, TLC

(***************************************************************************)
(* Bounds of the model and constants of the program.                       *)
(***************************************************************************)
MaxTime == 1
MaxThreads == 2
MaxRows == 11
MaxLimit == 2
MaxDateRows == 2
MaxFiles == 3
MaxEntries == 3
DAY == 86400
OverFetch == 10
DefaultLimit == 100
SnippetTokens == 30
WeekDays == 7
MonthDays == 30
YearDays == 365

Workers == 1..MaxThreads

(***************************************************************************)
(* The files the model lets appear under the screenshots folder.           *)
(***************************************************************************)
PA == <<"2024", "/", "03", "/", "a", ".png">>
PB == <<"2023", "/", "b", ".PNG">>
PT == <<"2024", "/", "notes", ".txt">>
Paths == {PA, PB, PT}
\* the files that come and go while the application runs
Screenshots == {PA, PB}

EmptyText == <<>>
RawOcr == {<<>>, <<" ">>, <<"invoice">>, <<" ", "invoice", " ">>}
Queries == {"invoice", "notes"}
UiQueries == {<<>>, <<" ">>, <<" ", " ">>, <<"invoice">>, <<" ", "invoice", " ">>, <<"notes", " ">>}
UiFolders == {<<"All Folders">>, <<"2024">>}
UiDates == {"none", "today"}
DateFilters == {"none", "today", "week", "month", "year"}
AllFolders == <<"All Folders">>
FolderFilters == {<<>>, AllFolders, <<"2024">>}
ScanFolders == {<<>>, <<"2024">>}

IMAGE_EXTENSIONS == {".png", ".jpg", ".jpeg", ".gif", ".bmp", ".webp"}

VARIABLES
  files,        \* the folder tree: the paths that are files on disk (and its empty directories)
  now,          \* the clock read by datetime.now()
  configured,   \* config.is_configured()
  index,        \* rows of the screenshots table, in rowid order
  tables,       \* the tables of the database file
  results_frame, \* the entries the results frame displays
  is_scanning,  \* ScreenshotSearchApp.is_scanning
  pc,           \* per scan thread: position in run_scan / scan_and_index
  globbed,      \* per scan thread: the paths the rglob calls returned
  images,       \* per scan thread: the sorted discovery list
  i,            \* per scan thread: enumerate index of the loop
  text,         \* per scan thread: result of extract_text for the current file
  stats,        \* per scan thread: the counters
  progress,     \* per scan thread: the progress_callback invocations so far
  txn,          \* per scan thread: rows written on its open connection, not yet committed
  afterQueue,   \* callbacks scheduled with root.after(0, ...)
  ret,          \* the operation that ran last and what it returned
  outcome,      \* history: path -> how the current scan classified it
  prev,         \* history: path -> how the previous scan classified it
  lastAdded,    \* history: path -> text of the add_screenshot call still in force
  changed,      \* history: a file appeared or disappeared, or a GC pass removed a row, since the latest discovery
  quiet         \* history: the latest scan returned, and no such change happened since its discovery

appVars == <<files, now, configured, index, tables, results_frame, is_scanning, afterQueue>>
scanVars == <<pc, globbed, images, i, text, stats, progress, txn>>
histVars == <<outcome, prev, lastAdded, changed, quiet>>
vars == <<appVars, scanVars, ret, histVars>>

(***************************************************************************)
(* Helpers on sequences.                                                   *)
(***************************************************************************)
Take(s, n) == SubSeq(s, 1, IF n < Len(s) THEN n ELSE Len(s))

\* Python's `needle in haystack` on strings
Contains(haystack, needle) ==
  \E k \in 0..(Len(haystack) - Len(needle)) :
     SubSeq(haystack, k + 1, k + Len(needle)) = needle

RECURSIVE Perms(_)
Perms(S) ==
  IF S = {} THEN {<<>>}
  ELSE UNION {{<<x>> \o s : s \in Perms(S \ {x})} : x \in S}

(***************************************************************************)
(* datetime: isoformat() writes the date and the time of day as separate   *)
(* fields, fromisoformat() reads them back.                                *)
(***************************************************************************)
isoformat(t) == [date |-> t \div DAY, time |-> t % DAY]
fromisoformat(s) == s.date * DAY + s.time

\* variant of the parse that accepts whatever is stored
ParseFailsNever(s) == FALSE

\* datetime.fromisoformat(s) raises ValueError for a stored value that is no
\* ISO timestamp; a value whose time of day is out of range stands for these
ParseFails(s) == s.time \notin 0..(DAY - 1)

(***************************************************************************)
(* database.py                                                             *)
(***************************************************************************)
ScreenshotsTable == "screenshots"
NoTables == {}

\* variant of init_db whose CREATE VIRTUAL TABLE has no IF NOT EXISTS
init_db_create(tbls, idx) ==
  IF ScreenshotsTable \in tbls
  THEN [raised |-> TRUE, tables |-> tbls, index |-> idx]
  ELSE [raised |-> FALSE, tables |-> tbls \cup {ScreenshotsTable}, index |-> <<>>]

\* CREATE VIRTUAL TABLE IF NOT EXISTS screenshots USING fts5(...)
init_db(tbls, idx) ==
  IF ScreenshotsTable \in tbls
  THEN [raised |-> FALSE, tables |-> tbls, index |-> idx]
  ELSE [raised |-> FALSE, tables |-> tbls \cup {ScreenshotsTable}, index |-> <<>>]

\* variant of commit that leaves the transaction open
commit_pending(idx, pending) == [index |-> idx, pending |-> pending]

\* variant of commit that writes over the rows of the table
commit_overwrite(idx, pending) == [index |-> pending, pending |-> <<>>]

\* conn.commit(); conn.close(): the rows written on the connection become
\* rows of the table
commit(idx, pending) == [index |-> idx \o pending, pending |-> <<>>]


add_screenshot(idx, file_path, extracted_text, t) ==
  Append(idx, [file_path |-> file_path,
               extracted_text |-> extracted_text,
               indexed_date |-> isoformat(t)])

\* variants of is_indexed: one that finds nothing, one that ignores rows
\* without text
is_indexed_never(idx, file_path) == FALSE

is_indexed_with_text(idx, file_path) ==
  \E k \in 1..Len(idx) :
     idx[k].file_path = file_path /\ idx[k].extracted_text # EmptyText

is_indexed(idx, file_path) ==
  \E k \in 1..Len(idx) : idx[k].file_path = file_path

\* variant of get_screenshot_text whose SELECT has no WHERE clause
get_screenshot_text_any(idx, file_path) ==
  IF idx = <<>> THEN EmptyText ELSE idx[1].extracted_text

get_screenshot_text(idx, file_path) ==
  LET hits == SelectSeq(idx, LAMBDA r : r.file_path = file_path)
  IN  IF hits = <<>> THEN EmptyText ELSE hits[1].extracted_text

get_stats(idx) == [total_indexed |-> Len(idx)]

\* Path(row['file_path']).exists()
PathExists(fs, file_path) == file_path \in fs

\* the loop of delete_missing_files over the fetched rows
RECURSIVE DeleteLoop(_, _, _, _)
DeleteLoop(rows, fs, kept, deleted) ==
  IF rows = <<>> THEN [index |-> kept, deleted |-> deleted]
  ELSE IF ~PathExists(fs, Head(rows).file_path)
       THEN DeleteLoop(Tail(rows), fs, kept, deleted + 1)
       ELSE DeleteLoop(Tail(rows), fs, Append(kept, Head(rows)), deleted)

\* variant of delete_missing_files that reports the rows it looked at
delete_missing_files_counts_all(idx, fs) ==
  [index |-> DeleteLoop(idx, fs, <<>>, 0).index, deleted |-> Len(idx)]

delete_missing_files(idx, fs) == DeleteLoop(idx, fs, <<>>, 0)

(***************************************************************************)
(* get_folders.  The folder tree is the set of its leaves: a path that     *)
(* ends in the separator is an empty directory, any other path is a file,  *)
(* and every prefix of a leaf that ends before a separator is a directory. *)
(* An entry is named by the first token of its name; no name of the pools  *)
(* is a prefix of another, so that the order of the names is the order of  *)
(* the strings.                                                            *)
(***************************************************************************)
IsPrefix(a, b) == Len(a) <= Len(b) /\ SubSeq(b, 1, Len(a)) = a

\* dir.iterdir(): the entries directly inside dir (<<>> is the root)
iterdir(tree, dir) ==
  {q[Len(dir) + 1] : q \in {p \in tree : IsPrefix(dir, p) /\ Len(p) > Len(dir)}}

\* path.is_dir()
is_dir(tree, path) == \E p \in tree : IsPrefix(path \o <<"/">>, p)

\* the order of str on the names of the pools
NameRank(name) ==
  CASE name = "03" -> 1
    [] name = "11" -> 2
    [] name = "2023" -> 3
    [] name = "2024" -> 4
    [] name = "a" -> 5
    [] name = "misc" -> 6
    [] name = "notes" -> 7
    [] name = "readme" -> 8
    [] OTHER -> 9

\* variant of the sort without reverse=True
RECURSIVE SortedForward(_)
SortedForward(names) ==
  IF names = {} THEN <<>>
  ELSE LET least == CHOOSE x \in names : \A y \in names : NameRank(x) <= NameRank(y)
       IN  <<least>> \o SortedForward(names \ {least})

\* sorted(..., reverse=True)
RECURSIVE SortedReverse(_)
SortedReverse(names) ==
  IF names = {} THEN <<>>
  ELSE LET greatest == CHOOSE x \in names : \A y \in names : NameRank(y) <= NameRank(x)
       IN  <<greatest>> \o SortedReverse(names \ {greatest})

\* the inner loop: f"{item.name}/{subitem.name}" for the directories in item
RECURSIVE SubFolders(_, _, _)
SubFolders(tree, item, subitems) ==
  IF subitems = <<>> THEN <<>>
  ELSE (IF is_dir(tree, <<item, "/", Head(subitems)>>)
        THEN << <<item, "/", Head(subitems)>> >> ELSE <<>>)
       \o SubFolders(tree, item, Tail(subitems))

\* the outer loop: item.name, then the labels of the inner loop
RECURSIVE Folders(_, _)
Folders(tree, items) ==
  IF items = <<>> THEN <<>>
  ELSE (IF is_dir(tree, <<Head(items)>>)
        THEN << <<Head(items)>> >>
               \o SubFolders(tree, Head(items),
                             SortedReverse(iterdir(tree, <<Head(items), "/">>)))
        ELSE <<>>)
       \o Folders(tree, Tail(items))

get_folders(tree) ==
  <<AllFolders>> \o Folders(tree, SortedReverse(iterdir(tree, <<>>)))

(***************************************************************************)
(* The FTS5 engine behind `screenshots MATCH ? ORDER BY rank LIMIT ?`.     *)
(* The table is declared with three indexed columns, so a term is looked   *)
(* up in the tokens of file_path, extracted_text and indexed_date alike.   *)
(* The tokenizer drops separators and folds case.  bm25 is abstracted to   *)
(* "more occurrences of the term first, ties in rowid order".              *)
(***************************************************************************)
Separators == {"/", "\\", " ", ".", ":", "-"}

Fold(tok) ==
  CASE tok \in {".png", ".PNG", ".Png", "PNG"} -> "png"
    [] tok = ".jpg" -> "jpg"
    [] tok = ".txt" -> "txt"
    [] OTHER -> tok

Tokenize(str) == 
  LET kept == SelectSeq(str, LAMBDA c : c \notin Separators)
  IN  [k \in 1..Len(kept) |-> Fold(kept[k])]

RowTokens(row) ==
  Tokenize(row.file_path) \o Tokenize(row.extracted_text)
     \o <<ToString(row.indexed_date.date), ToString(row.indexed_date.time)>>

Occurrences(row, query) ==
  LET toks == RowTokens(row)
  IN  Cardinality({k \in 1..Len(toks) : toks[k] = Fold(query)})

RECURSIVE RankFrom(_, _, _)
RankFrom(rows, query, c) ==
  IF c <= 0 THEN <<>>
  ELSE SelectSeq(rows, LAMBDA r : Occurrences(r, query) = c)
         \o RankFrom(rows, query, c - 1)

MaxOccurrences(rows, query) ==
  IF rows = <<>> THEN 0
  ELSE LET n == {Occurrences(rows[k], query) : k \in 1..Len(rows)}
       IN  CHOOSE m \in n : \A x \in n : x <= m

\* snippet(screenshots, 1, '>>>', '<<<', '...', 30)
RECURSIVE Mark(_, _)
Mark(txt, query) ==
  IF txt = <<>> THEN <<>>
  ELSE (IF Head(txt) \notin Separators /\ Fold(Head(txt)) = Fold(query)
        THEN <<">>>", Head(txt), "<<<">> ELSE <<Head(txt)>>)
       \o Mark(Tail(txt), query)

snippet(txt, query) ==
  IF Len(txt) > SnippetTokens
  THEN Mark(Take(txt, SnippetTokens), query) \o <<"...">>
  ELSE Mark(txt, query)

\* the rows cursor.fetchall() yields for (query, limit * 10)
Candidates(idx, query, limit) ==
  LET ranked == RankFrom(idx, query, MaxOccurrences(idx, query))
      fetched == Take(ranked, limit * OverFetch)
  IN  [k \in 1..Len(fetched) |->
         [file_path |-> fetched[k].file_path,
          extracted_text |-> fetched[k].extracted_text,
          snippet |-> snippet(fetched[k].extracted_text, query),
          indexed_date |-> fetched[k].indexed_date]]

(***************************************************************************)
(* database.search: the Python part                                        *)
(***************************************************************************)
NoThreshold == [set |-> FALSE, at |-> 0]

DateThreshold(date_filter, t) ==
  CASE date_filter = "today" -> [set |-> TRUE, at |-> t - (t % DAY)]
    [] date_filter = "week"  -> [set |-> TRUE, at |-> t - WeekDays * DAY]
    [] date_filter = "month" -> [set |-> TRUE, at |-> t - MonthDays * DAY]
    [] date_filter = "year"  -> [set |-> TRUE, at |-> t - YearDays * DAY]
    [] OTHER -> NoThreshold

\* variant of the folder filter that compares the whole path
FolderSkipsUnlessEqual(folder_filter, file_path) ==
  /\ folder_filter # <<>>
  /\ folder_filter # AllFolders
  /\ file_path # folder_filter

\* `continue` of the folder filter
FolderSkips(folder_filter, file_path) ==
  /\ folder_filter # <<>>
  /\ folder_filter # AllFolders
  /\ ~Contains(file_path, folder_filter)

\* variant of the date filter that also drops an entry dated exactly at the
\* threshold
DateSkipsAtThreshold(date_threshold, indexed_date) ==
  /\ date_threshold.set
  /\ ~ParseFails(indexed_date)
  /\ fromisoformat(indexed_date) <= date_threshold.at

\* `continue` of the date filter; the except branch passes
DateSkips(date_threshold, indexed_date) ==
  /\ date_threshold.set
  /\ ~ParseFails(indexed_date)
  /\ fromisoformat(indexed_date) < date_threshold.at

ResultOf(row) ==
  [file_path |-> row.file_path,
   extracted_text |-> row.extracted_text,
   snippet |-> row.snippet]

\* variant of the break test that is off by one
LimitExceeded(results, limit) == Len(results) > limit

\* `if len(results) >= limit: break`
LimitReached(results, limit) == Len(results) >= limit

RECURSIVE FilterLoop(_, _, _, _, _)
FilterLoop(rows, folder_filter, date_threshold, limit, results) ==
  IF rows = <<>> THEN results
  ELSE IF FolderSkips(folder_filter, Head(rows).file_path)
       THEN FilterLoop(Tail(rows), folder_filter, date_threshold, limit, results)
  ELSE IF DateSkips(date_threshold, Head(rows).indexed_date)
       THEN FilterLoop(Tail(rows), folder_filter, date_threshold, limit, results)
  ELSE LET more == Append(results, ResultOf(Head(rows)))
       IN  IF LimitReached(more, limit) THEN more
           ELSE FilterLoop(Tail(rows), folder_filter, date_threshold, limit, more)

search(idx, t, query, limit, date_filter, folder_filter) ==
  FilterLoop(Candidates(idx, query, limit), folder_filter,
             DateThreshold(date_filter, t), limit, <<>>)

(***************************************************************************)
(* ocr_engine.py and scanner.py                                            *)
(***************************************************************************)
\* str.strip()
RECURSIVE strip(_)
strip(raw) ==
  IF raw = <<>> THEN raw
  ELSE IF Head(raw) = " " THEN strip(Tail(raw))
  ELSE IF raw[Len(raw)] = " " THEN strip(SubSeq(raw, 1, Len(raw) - 1))
  ELSE raw

\* what extract_text can return for a file: Image.open raises on a file that
\* is gone, and the except branch returns ""
extract_text(fs, image_path) ==
  IF ~PathExists(fs, image_path) THEN {EmptyText}
  ELSE {strip(raw) : raw \in RawOcr}

Suffix(path) == path[Len(path)]
FileName(path) == <<path[Len(path) - 1], path[Len(path)]>>

ToUpper(ext) ==
  CASE ext = ".png" -> ".PNG"
    [] ext = ".jpg" -> ".JPG"
    [] ext = ".jpeg" -> ".JPEG"
    [] ext = ".gif" -> ".GIF"
    [] ext = ".bmp" -> ".BMP"
    [] ext = ".webp" -> ".WEBP"
    [] OTHER -> ext

ToLower(ext) ==
  CASE ext \in {".PNG", ".Png"} -> ".png"
    [] ext \in {".JPG", ".Jpg"} -> ".jpg"
    [] ext = ".JPEG" -> ".jpeg"
    [] ext = ".GIF" -> ".gif"
    [] ext = ".BMP" -> ".bmp"
    [] ext = ".WEBP" -> ".webp"
    [] ext = ".TXT" -> ".txt"
    [] OTHER -> ext

\* folder.rglob("*" + ext) over the files on disk: pathlib matches the
\* pattern against the name as written on POSIX and with case folded on
\* Windows
rglob(fs, ext, case_sensitive) ==
  {p \in fs : IF case_sensitive THEN Suffix(p) = ext
                                ELSE ToLower(Suffix(p)) = ToLower(ext)}

\* the two rglob calls per extension, then set(images)
GlobImages(fs, case_sensitive) ==
  UNION {rglob(fs, ext, case_sensitive) \cup rglob(fs, ToUpper(ext), case_sensitive)
           : ext \in IMAGE_EXTENSIONS}

\* sorted(unique_images, key=st_mtime, reverse=True): modification times are
\* not tracked, so every order of the set is one the sort can produce
SortedByMtime(found) == Perms(found)

\* p.stat() raises for a path that vanished after the glob
StatRaises(found, fs) == \E p \in found : p \notin fs

ZeroStats == [indexed |-> 0, skipped |-> 0, failed |-> 0]

\* variant of the progress report that passes the 0-based enumerate index
ProgressArgsZeroBased(k, total, image_path) ==
  [current |-> k, total |-> total, filename |-> <<image_path[Len(image_path) - 1], image_path[Len(image_path)]>>]

\* progress_callback(i + 1, total, image_path.name)
ProgressArgs(k, total, image_path) ==
  [current |-> k + 1, total |-> total, filename |-> FileName(image_path)]

\* variant of the loop body that writes no row when no text was found
IndexFileTextOnly(idx, file_path, txt, t) ==
  IF txt # EmptyText THEN add_screenshot(idx, file_path, txt, t) ELSE idx

\* the `if text:` branches of the loop body: the row written ...
IndexFile(idx, file_path, txt, t) ==
  IF txt # EmptyText
  THEN add_screenshot(idx, file_path, txt, t)
  ELSE add_screenshot(idx, file_path, EmptyText, t)

\* ... and the counter incremented
Classify(txt) == IF txt # EmptyText THEN "indexed" ELSE "failed"

\* variant of the counting that leaves 'skipped' alone
BumpExceptSkipped(st, key) ==
  IF key = "skipped" THEN st ELSE [st EXCEPT ![key] = @ + 1]

Bump(st, key) == [st EXCEPT ![key] = @ + 1]

\* where the loop goes after file number k (0-based) is done
AfterFile(k, imgs) == IF k + 1 < Len(imgs) THEN "cb" ELSE "ret"

(***************************************************************************)
(* The application: initial state and operations.                          *)
(***************************************************************************)
Nothing == [op |-> "none"]
NoOutcome == [p \in Paths |-> "none"]
NotAdded == [set |-> FALSE, text |-> EmptyText]

AppInit ==
  /\ configured = FALSE
  /\ results_frame = <<>>
  /\ is_scanning = FALSE
  /\ pc = [w \in Workers |-> "idle"]
  /\ globbed = [w \in Workers |-> {}]
  /\ images = [w \in Workers |-> <<>>]
  /\ i = [w \in Workers |-> 0]
  /\ text = [w \in Workers |-> EmptyText]
  /\ stats = [w \in Workers |-> ZeroStats]
  /\ progress = [w \in Workers |-> <<>>]
  /\ txn = [w \in Workers |-> <<>>]
  /\ afterQueue = <<>>
  /\ ret = Nothing
  /\ outcome = NoOutcome
  /\ prev = NoOutcome
  /\ lastAdded = [p \in Paths |-> NotAdded]
  /\ changed = FALSE
  /\ quiet = FALSE

\* ScreenshotSearchApp.__init__ has called database.init_db() on the
\* database file of a fresh installation
Init ==
  /\ files = {PT}
  /\ now = 0
  /\ index = init_db(NoTables, <<>>).index
  /\ tables = init_db(NoTables, <<>>).tables
  /\ AppInit

\* ---- the environment: the folder tree and the clock
CreateFile(p) ==
  /\ p \notin files
  /\ files' = files \cup {p}
  /\ changed' = TRUE
  /\ quiet' = FALSE
  /\ ret' = Nothing
  /\ UNCHANGED <<now, configured, index, tables, results_frame, is_scanning, afterQueue, scanVars>>
  /\ UNCHANGED <<outcome, prev, lastAdded>>

DeleteFile(p) ==
  /\ p \in files
  /\ files' = files \ {p}
  /\ changed' = TRUE
  /\ quiet' = FALSE
  /\ ret' = Nothing
  /\ UNCHANGED <<now, configured, index, tables, results_frame, is_scanning, afterQueue, scanVars>>
  /\ UNCHANGED <<outcome, prev, lastAdded>>

Tick ==
  /\ now < MaxTime
  /\ now' = now + 1
  /\ ret' = Nothing
  /\ UNCHANGED <<files, configured, index, tables, results_frame, is_scanning, afterQueue>>
  /\ UNCHANGED <<scanVars, histVars>>

\* browse_folder: config.set_screenshots_folder(folder)
SetFolder ==
  /\ ~configured
  /\ configured' = TRUE
  /\ ret' = Nothing
  /\ UNCHANGED <<files, now, index, tables, results_frame, is_scanning, afterQueue>>
  /\ UNCHANGED <<scanVars, histVars>>

\* ---- main.py: the UI thread
\* variant of start_scan's guard without the is_scanning test
StartsScanUnguarded(scanning, isConfigured) == isConfigured

\* start_scan goes on to start a thread
StartsScan(scanning, isConfigured) == ~scanning /\ isConfigured

\* variant of start_scan that starts the thread without raising the flag
FlagWhenStartedUnset(scanning) == scanning

\* self.is_scanning = True, before thread.start()
FlagWhenStarted(scanning) == TRUE

start_scan ==
  \/ /\ ~StartsScan(is_scanning, configured)
     /\ ret' = Nothing
     /\ UNCHANGED <<appVars, scanVars, histVars>>
  \/ /\ StartsScan(is_scanning, configured)
     /\ \E w \in Workers :
          /\ pc[w] = "idle"
          /\ \A v \in Workers : pc[v] = "idle" => w <= v
          /\ pc' = [pc EXCEPT ![w] = "init"]
     /\ is_scanning' = FlagWhenStarted(is_scanning)
     /\ ret' = Nothing
     /\ UNCHANGED <<files, now, configured, index, tables, results_frame, afterQueue, histVars>>
     /\ UNCHANGED <<globbed, images, i, text, stats, progress, txn>>

scan_complete ==
  /\ afterQueue # <<>>
  /\ Head(afterQueue).fn = "scan_complete"
  /\ afterQueue' = Tail(afterQueue)
  /\ is_scanning' = FALSE
  /\ ret' = Nothing
  /\ UNCHANGED <<files, now, configured, index, tables, results_frame, scanVars, histVars>>

\* whether the name e of `except Exception as e` is bound when Tk runs the
\* lambda scheduled in the except block.  Python unbinds e when the block is
\* left, which the scan thread does as soon as root.after has returned; the
\* lambda finds e bound only if the UI thread runs it before that, and
\* raises NameError otherwise
ExceptTargetBound == BOOLEAN

\* the callback `lambda: self.scan_error(str(e))`: scan_error runs only if
\* str(e) can be evaluated
scan_error ==
  /\ afterQueue # <<>>
  /\ Head(afterQueue).fn = "scan_error"
  /\ afterQueue' = Tail(afterQueue)
  /\ \E bound \in ExceptTargetBound :
       is_scanning' = IF bound THEN FALSE ELSE is_scanning
  /\ ret' = Nothing
  /\ UNCHANGED <<files, now, configured, index, tables, results_frame, scanVars, histVars>>

\* variant of do_search that clears the results before looking at the query
ClearsResultsAlways(query) == TRUE

\* do_search gets past `if not query: ... return` to clear_results()
ClearsResults(query) == query # <<>>

\* do_search: raw is the text of the search box; the query handed to
\* database.search is a single term
do_search(raw, date_filter, folder_filter) ==
  LET query == strip(raw)
      cleared == IF ClearsResults(query) THEN <<>> ELSE results_frame
  IN  /\ IF query = <<>>
         THEN /\ ret' = [op |-> "do_search", raw |-> raw, searched |-> FALSE,
                         message |-> "Please enter a search term"]
              /\ results_frame' = cleared
         ELSE LET found == search(index, now, query[1], DefaultLimit, date_filter,
                                  IF folder_filter # AllFolders
                                  THEN folder_filter ELSE <<>>)
              IN  /\ ret' = [op |-> "do_search", raw |-> raw, searched |-> TRUE,
                             query |-> query[1], folder_filter |-> folder_filter,
                             found |-> Len(found)]
                  /\ results_frame' = cleared \o found
      /\ UNCHANGED <<files, now, configured, index, tables, is_scanning, afterQueue>>
      /\ UNCHANGED <<scanVars, histVars>>

\* ---- database.py called directly
SearchCall(query, limit, date_filter, folder_filter) ==
  /\ ret' = [op |-> "search", query |-> query, limit |-> limit,
             date_filter |-> date_filter, folder_filter |-> folder_filter,
             val |-> search(index, now, query, limit, date_filter, folder_filter)]
  /\ UNCHANGED <<appVars, scanVars, histVars>>

\* update_status: database.get_stats()
StatusQuery ==
  /\ ret' = [op |-> "get_stats", val |-> get_stats(index)]
  /\ UNCHANGED <<appVars, scanVars, histVars>>

\* one delete_missing_files pass: the rows are fetched, checked against the
\* disk and deleted in a single transaction; as a writer it waits for the
\* commit of a write in progress on another connection
GarbageCollect ==
  LET r == delete_missing_files(index, files)
      gone == {p \in Paths : is_indexed(index, p) /\ ~is_indexed(r.index, p)}
  IN  /\ \A w \in Workers : txn[w] = <<>>
      /\ index' = r.index
      /\ ret' = [op |-> "delete_missing_files", val |-> r.deleted]
      /\ outcome' = [p \in Paths |-> IF p \in gone THEN "none" ELSE outcome[p]]
      /\ prev' = [p \in Paths |-> IF p \in gone THEN "none" ELSE prev[p]]
      /\ lastAdded' = [p \in Paths |-> IF p \in gone THEN NotAdded ELSE lastAdded[p]]
      /\ changed' = (changed \/ r.index # index)
      /\ quiet' = (quiet /\ r.index = index)
      /\ UNCHANGED <<files, now, configured, tables, results_frame, is_scanning, afterQueue, scanVars>>

\* ---- the scan thread: run_scan calling scanner.scan_and_index
Current(w) == images[w][i[w] + 1]

InitDb(w) ==
  /\ pc[w] = "init"
  /\ LET r == init_db(tables, index)
     IN  /\ index' = r.index
         /\ tables' = r.tables
         /\ pc' = [pc EXCEPT ![w] = IF r.raised THEN "raise" ELSE "glob"]
  /\ ret' = Nothing
  /\ UNCHANGED <<files, now, configured, results_frame, is_scanning, afterQueue, histVars>>
  /\ UNCHANGED <<globbed, images, i, text, stats, progress, txn>>

\* the rglob calls of get_all_images, on a platform that matches patterns
\* case-sensitively or on one that does not
Glob(w) ==
  /\ pc[w] = "glob"
  /\ \E case_sensitive \in BOOLEAN :
       globbed' = [globbed EXCEPT ![w] = GlobImages(files, case_sensitive)]
  /\ pc' = [pc EXCEPT ![w] = "sort"]
  /\ ret' = Nothing
  /\ prev' = outcome
  /\ outcome' = NoOutcome
  /\ changed' = FALSE
  /\ UNCHANGED <<appVars, images, i, text, stats, progress, txn, lastAdded, quiet>>

Sort(w) ==
  /\ pc[w] = "sort"
  /\ \/ /\ StatRaises(globbed[w], files)
        /\ pc' = [pc EXCEPT ![w] = "raise"]
        /\ quiet' = FALSE
        /\ UNCHANGED images
     \/ /\ ~StatRaises(globbed[w], files)
        /\ \E s \in SortedByMtime(globbed[w]) :
             /\ images' = [images EXCEPT ![w] = s]
             /\ pc' = [pc EXCEPT ![w] = IF s = <<>> THEN "ret" ELSE "cb"]
        /\ UNCHANGED quiet
  /\ globbed' = [globbed EXCEPT ![w] = {}]
  /\ ret' = Nothing
  /\ UNCHANGED <<appVars, i, text, stats, progress, txn, outcome, prev, lastAdded, changed>>

Callback(w) ==
  /\ pc[w] = "cb"
  /\ progress' = [progress EXCEPT ![w] =
                    Append(@, ProgressArgs(i[w], Len(images[w]), Current(w)))]
  /\ pc' = [pc EXCEPT ![w] = "check"]
  /\ ret' = Nothing
  /\ UNCHANGED <<appVars, globbed, images, i, text, stats, txn, histVars>>

Check(w) ==
  /\ pc[w] = "check"
  /\ IF is_indexed(index, Current(w))
     THEN /\ stats' = [stats EXCEPT ![w] = Bump(@, "skipped")]
          /\ outcome' = [outcome EXCEPT ![Current(w)] = "skipped"]
          /\ i' = [i EXCEPT ![w] = @ + 1]
          /\ pc' = [pc EXCEPT ![w] = AfterFile(i[w], images[w])]
     ELSE /\ pc' = [pc EXCEPT ![w] = "ocr"]
          /\ UNCHANGED <<stats, outcome, i>>
  /\ ret' = Nothing
  /\ UNCHANGED <<appVars, globbed, images, text, progress, txn>>
  /\ UNCHANGED <<prev, lastAdded, changed, quiet>>

Ocr(w) ==
  /\ pc[w] = "ocr"
  /\ \E t \in extract_text(files, Current(w)) : text' = [text EXCEPT ![w] = t]
  /\ pc' = [pc EXCEPT ![w] = "insert"]
  /\ ret' = Nothing
  /\ UNCHANGED <<appVars, globbed, images, i, stats, progress, txn, histVars>>

\* add_screenshot up to cursor.execute: the row, stamped with the time of
\* the call, is written on the connection's transaction
Insert(w) ==
  /\ pc[w] = "insert"
  /\ txn' = [txn EXCEPT ![w] = IndexFile(@, Current(w), text[w], now)]
  /\ pc' = [pc EXCEPT ![w] = "add"]
  /\ ret' = Nothing
  /\ UNCHANGED <<appVars, globbed, images, i, text, stats, progress, histVars>>

\* add_screenshot from conn.commit() on, and the counter of the loop body
Add(w) ==
  /\ pc[w] = "add"
  /\ index' = commit(index, txn[w]).index
  /\ txn' = [txn EXCEPT ![w] = commit(index, txn[w]).pending]
  /\ stats' = [stats EXCEPT ![w] = Bump(@, Classify(text[w]))]
  /\ outcome' = [outcome EXCEPT ![Current(w)] = Classify(text[w])]
  /\ lastAdded' = IF Len(index') > Len(index)
                  THEN [lastAdded EXCEPT ![Current(w)] = [set |-> TRUE, text |-> text[w]]]
                  ELSE lastAdded
  /\ text' = [text EXCEPT ![w] = EmptyText]
  /\ i' = [i EXCEPT ![w] = @ + 1]
  /\ pc' = [pc EXCEPT ![w] = AfterFile(i[w], images[w])]
  /\ ret' = Nothing
  /\ UNCHANGED <<files, now, configured, tables, results_frame, is_scanning, afterQueue>>
  /\ UNCHANGED <<globbed, images, progress, prev, changed, quiet>>

ThreadExit(w) ==
  /\ pc' = [pc EXCEPT ![w] = "idle"]
  /\ images' = [images EXCEPT ![w] = <<>>]
  /\ i' = [i EXCEPT ![w] = 0]
  /\ stats' = [stats EXCEPT ![w] = ZeroStats]
  /\ progress' = [progress EXCEPT ![w] = <<>>]
  /\ UNCHANGED <<globbed, text, txn>>

Return(w) ==
  /\ pc[w] = "ret"
  /\ afterQueue' = Append(afterQueue, [fn |-> "scan_complete", stats |-> stats[w]])
  /\ ret' = [op |-> "scan_and_index", val |-> stats[w], total |-> Len(images[w])]
  /\ ThreadExit(w)
  /\ quiet' = ~changed
  /\ UNCHANGED <<files, now, configured, index, tables, results_frame, is_scanning>>
  /\ UNCHANGED <<outcome, prev, lastAdded, changed>>

Raise(w) ==
  /\ pc[w] = "raise"
  /\ afterQueue' = Append(afterQueue, [fn |-> "scan_error"])
  /\ ret' = [op |-> "scan_and_index", raised |-> TRUE]
  /\ ThreadExit(w)
  /\ UNCHANGED <<files, now, configured, index, tables, results_frame, is_scanning, histVars>>

ScanStep(w) ==
  \/ InitDb(w) \/ Glob(w) \/ Sort(w) \/ Callback(w) \/ Check(w)
  \/ Ocr(w) \/ Insert(w) \/ Add(w) \/ Return(w) \/ Raise(w)

\* the scanner and the store: scans started from the UI, with the folder
\* tree and the clock changing, and with searches, status queries and
\* garbage-collection passes arriving at any point
Next ==
  \/ \E p \in Screenshots : CreateFile(p) \/ DeleteFile(p)
  \/ Tick
  \/ SetFolder
  \/ start_scan
  \/ scan_complete
  \/ scan_error
  \/ \E ff \in ScanFolders : SearchCall("invoice", DefaultLimit, "none", ff)
  \/ StatusQuery
  \/ GarbageCollect
  \/ \E w \in Workers : ScanStep(w)

Spec == Init /\ [][Next]_vars

(***************************************************************************)
(* database.search as a function of its inputs: the table and the clock    *)
(* are drawn from bounded sets, and the only operation is the call.        *)
(*                                                                         *)
(* BigTable(n, in2024): n rows, one indexed per day at 01:00, row k below  *)
(* folder 2024 iff k \in in2024 (at most MaxLimit of them), searched at    *)
(* 02:00 of day n.  With MaxRows > OverFetch the LIMIT of the query cuts   *)
(* the candidate list.                                                     *)
(* DateTable(stamps): rows with the given indexed_date values, the first   *)
(* below folder 2024; the values sit on both sides of each threshold, and  *)
(* one of them is no timestamp.                                            *)
(* NameTable(n): n rows whose file name holds a term their text lacks.     *)
(***************************************************************************)
TextOfRow(k) ==
  CASE k % 3 = 0 -> <<"invoice", "total", "invoice">>
    [] k % 3 = 1 -> <<"invoice">>
    [] OTHER -> <<"meeting", "notes", "invoice">>

BigTable(n, in2024) ==
  [k \in 1..n |->
     [file_path |-> <<(IF k \in in2024 THEN "2024" ELSE "2023"), "/", ToString(k), ".png">>,
      extracted_text |-> TextOfRow(k),
      indexed_date |-> isoformat(k * DAY + 3600)]]

BigNow(n) == n * DAY + 7200

Midnight(t) == t - (t % DAY)

NowSamples == {400 * DAY, 400 * DAY + 1, 401 * DAY - 1}

DateSamples(t) ==
  {t, Midnight(t), Midnight(t) - 1,
   t - WeekDays * DAY, t - WeekDays * DAY - 1,
   t - MonthDays * DAY, t - MonthDays * DAY - 1,
   t - YearDays * DAY, t - YearDays * DAY - 1}

\* a stored indexed_date that is no timestamp ("... 24:00:00")
BadStamp == [date |-> 0, time |-> DAY]

StampSamples(t) == {isoformat(d) : d \in DateSamples(t)} \cup {BadStamp}

DateTable(stamps) ==
  [k \in 1..Len(stamps) |->
     [file_path |-> <<(IF k = 1 THEN "2024" ELSE "2023"), "/", ToString(k), ".png">>,
      extracted_text |-> <<"invoice">>,
      indexed_date |-> stamps[k]]]

\* rows whose file is named after a term that their text does not hold:
\* the odd rows were stored without text, the even ones with another text
NameTable(n) ==
  [k \in 1..n |->
     [file_path |-> <<"2024", "/", ToString(k), "/", "invoice", ".png">>,
      extracted_text |-> IF k % 2 = 1 THEN EmptyText ELSE <<"meeting">>,
      indexed_date |-> isoformat(k * DAY + 3600)]]

DateLists(t) ==
  UNION {[1..n -> StampSamples(t)] : n \in 0..MaxDateRows}

SearchInit ==
  /\ \/ \E n \in 0..MaxRows : \E in2024 \in SUBSET (1..n) :
          /\ Cardinality(in2024) <= MaxLimit
          /\ index = BigTable(n, in2024)
          /\ now = BigNow(n)
     \/ \E t \in NowSamples : \E stamps \in DateLists(t) :
          /\ index = DateTable(stamps)
          /\ now = t
     \/ \E n \in 1..MaxDateRows :
          /\ index = NameTable(n)
          /\ now = BigNow(n)
  /\ tables = {ScreenshotsTable}
  /\ files = {}
  /\ AppInit

\* each drawn input is searched once
SearchNext ==
  /\ ret = Nothing
  /\ \E q \in Queries, limit \in 0..MaxLimit, df \in DateFilters, ff \in FolderFilters :
       SearchCall(q, limit, df, ff)

SpecSearch == SearchInit /\ [][SearchNext]_vars

(***************************************************************************)
(* scanner.get_all_images as a function of the folder tree and of the      *)
(* platform: the files are drawn from a pool with lower-case, upper-case   *)
(* and mixed-case suffixes, inside and outside the allow-list.             *)
(***************************************************************************)
DiscoverPool ==
  {PA, PB, PT,
   <<"2024", "/", "c", ".Png">>,
   <<"2023", "/", "d", ".jpg">>,
   <<"e", ".JPEG">>}

DiscoverInit ==
  /\ \E fs \in SUBSET DiscoverPool :
       /\ Cardinality(fs) <= MaxFiles
       /\ files = fs
  /\ now = 0
  /\ index = <<>>
  /\ tables = {ScreenshotsTable}
  /\ AppInit

\* get_all_images(folder), once per drawn tree
GetAllImages ==
  /\ ret = Nothing
  /\ \E case_sensitive \in BOOLEAN :
       \E s \in SortedByMtime(GlobImages(files, case_sensitive)) :
          ret' = [op |-> "get_all_images", case_sensitive |-> case_sensitive, val |-> s]
  /\ UNCHANGED <<appVars, scanVars, histVars>>

DiscoverNext == GetAllImages

SpecDiscover == DiscoverInit /\ [][DiscoverNext]_vars

(***************************************************************************)
(* database.get_folders as a function of the folder tree: directories of   *)
(* the first, second and third level, empty or not, and plain files.       *)
(***************************************************************************)
TreePool ==
  {<<"2024", "/">>, <<"2023", "/">>, <<"misc", "/">>,
   <<"2024", "/", "03", "/">>, <<"2024", "/", "11", "/">>, <<"2023", "/", "11", "/">>,
   <<"2024", "/", "03", "/", "x", "/">>,
   PA, PT, <<"readme", ".txt">>}

FoldersInit ==
  /\ \E tree \in SUBSET TreePool :
       /\ Cardinality(tree) <= MaxEntries
       /\ files = tree
  /\ now = 0
  /\ index = <<>>
  /\ tables = {ScreenshotsTable}
  /\ AppInit

\* load_folders: database.get_folders(), once per drawn tree
GetFolders ==
  /\ ret = Nothing
  /\ ret' = [op |-> "get_folders", val |-> get_folders(files)]
  /\ UNCHANGED <<appVars, scanVars, histVars>>

FoldersNext == GetFolders

SpecFolders == FoldersInit /\ [][FoldersNext]_vars

(***************************************************************************)
(* The search box: do_search over a table drawn from a bounded set, with   *)
(* whatever an earlier search left on display.                             *)
(***************************************************************************)
UiInit ==
  /\ \E n \in 0..(MaxDateRows + 1) : \E in2024 \in SUBSET (1..n) :
       /\ index = BigTable(n, in2024)
       /\ now = BigNow(n)
  /\ tables = {ScreenshotsTable}
  /\ files = {}
  /\ AppInit

UiNext ==
  \E raw \in UiQueries, df \in UiDates, ff \in UiFolders : do_search(raw, df, ff)

SpecUi == UiInit /\ [][UiNext]_vars

(***************************************************************************)
(* The folder filter on a scanned root: the index is the one a scan of the *)
(* tree leaves behind, with the paths as str(image_path) writes them on    *)
(* the platform, and the search is made with a label of get_folders.       *)
(***************************************************************************)
\* os.sep: "/" on POSIX, "\" on Windows
PathSeparators == {"/", "\\"}

\* str(image_path): the parts of the path joined by the platform's separator
str_path(path, sep) ==
  [k \in 1..Len(path) |-> IF path[k] = "/" THEN sep ELSE path[k]]

\* the loop of scan_and_index over an empty index, every file recognized
\* with the same text
RECURSIVE ScanAll(_, _, _, _)
ScanAll(idx, imgs, sep, t) ==
  IF imgs = <<>> THEN idx
  ELSE ScanAll(commit(idx, IndexFile(<<>>, str_path(Head(imgs), sep),
                                     <<"invoice">>, t)).index,
               Tail(imgs), sep, t)

FilterPool ==
  {PA, <<"2024", "/", "11", "/", "a", ".png">>, <<"2024", "/", "a", ".png">>,
   <<"2023", "/", "11", "/", "a", ".png">>, <<"misc", "/", "a", ".png">>,
   <<"a", ".png">>}

FilterInit ==
  /\ \E tree \in SUBSET FilterPool : \E sep \in PathSeparators :
       /\ Cardinality(tree) \in 1..MaxFiles
       /\ files = tree
       /\ \E imgs \in SortedByMtime(GlobImages(tree, sep = "/")) :
            index = ScanAll(<<>>, imgs, sep, 0)
  /\ now = 0
  /\ tables = {ScreenshotsTable}
  /\ AppInit

\* do_search with an entry of the folder dropdown, which load_folders
\* fills from get_folders
FilterSearch ==
  /\ ret = Nothing
  /\ \E k \in 1..Len(get_folders(files)) :
       do_search(<<"invoice">>, "none", get_folders(files)[k])

FilterNext == FilterSearch

SpecFilter == FilterInit /\ [][FilterNext]_vars

(***************************************************************************)
(* Properties.                                                             *)
(***************************************************************************)
InLoop(w) == pc[w] \in {"cb", "check", "ocr", "insert", "add", "ret"}
Total(st) == st.indexed + st.skipped + st.failed

\* C1: in every reachable state of the application (scans started through
\* start_scan, searches, garbage-collection passes, files coming and going)
\* the index holds at most one row per file_path.
C1_OneRowPerPath ==
  \A a, b \in 1..Len(index) : index[a].file_path = index[b].file_path => a = b

\* a rescan has skipped an indexed file while the index holds two rows
C1_Witness ==
  /\ Len(index) = 2
  /\ \E w \in Workers : pc[w] = "ret" /\ stats[w].skipped >= 1

\* C2: a file classified by the previous scan and again by the current one,
\* without a garbage-collection pass having removed it in between, is counted
\* as skipped by the current scan, whatever the previous outcome was.
C2_RescanSkips ==
  \A p \in Paths :
     (prev[p] # "none" /\ outcome[p] # "none") => outcome[p] = "skipped"

\* the previous scan indexed one file and failed on the other, and the
\* current scan has skipped both
C2_Witness ==
  /\ prev[PA] = "indexed" /\ outcome[PA] = "skipped"
  /\ prev[PB] = "failed" /\ outcome[PB] = "skipped"

\* C3: while scan_and_index runs the three counters add up to the number of
\* files done so far, and when it returns they add up to the number of
\* discovered files.
C3_CountersSumToTotal ==
  \A w \in Workers :
     InLoop(w) =>
       /\ Total(stats[w]) = i[w]
       /\ pc[w] = "ret" => Total(stats[w]) = Len(images[w])

\* a scan of two files is about to return with one file under each of two counters
C3_Witness ==
  \E w \in Workers :
     /\ pc[w] = "ret"
     /\ Len(images[w]) = 2
     /\ stats[w].skipped = 1
     /\ stats[w].failed = 1

\* C4: from the return of add_screenshot(P, text) until a garbage-collection
\* pass removes P, is_indexed(P) is true and get_screenshot_text(P) is text.
C4_AddedTextIsReturned ==
  \A p \in Paths :
     lastAdded[p].set =>
       /\ is_indexed(index, p)
       /\ get_screenshot_text(index, p) = lastAdded[p].text

\* a text was added for the path of the second row, after a first row
\* without text
C4_Witness ==
  /\ Len(index) = 2
  /\ index[1].extracted_text = EmptyText
  /\ lastAdded[index[2].file_path].set
  /\ lastAdded[index[2].file_path].text = <<"invoice">>

\* C5: when extract_text gave "" for an unindexed file, the insert step adds
\* one row for it with extracted_text "" and increments 'failed' and nothing
\* else; and a later scan that reaches a file the previous scan counted as
\* failed counts it as skipped and does not go on to OCR.
C5_EmptyTextIsRecorded ==
  [][\A w \in Workers :
       /\ (pc[w] = "add" /\ pc'[w] # "add" /\ text[w] = EmptyText) =>
            /\ Len(index') = Len(index) + 1
            /\ is_indexed(index', Current(w))
            /\ get_screenshot_text(index', Current(w)) = EmptyText
            /\ stats'[w] = [stats[w] EXCEPT !.failed = @ + 1]
       /\ (pc[w] = "check" /\ pc'[w] # "check" /\ prev[Current(w)] = "failed") =>
            /\ pc'[w] # "ocr"
            /\ stats'[w] = [stats[w] EXCEPT !.skipped = @ + 1]
            /\ index' = index]_vars

\* a file that the previous scan counted as failed was skipped by this one
C5_Witness ==
  /\ prev[PA] = "failed"
  /\ outcome[PA] = "skipped"
  /\ get_screenshot_text(index, PA) = EmptyText
  /\ is_indexed(index, PA)

\* C6: a delete_missing_files pass leaves exactly the rows whose file exists,
\* in their order, returns the number of rows it removed, and get_stats
\* reports that many fewer.
C6_GarbageCollectExact ==
  [][ret'.op = "delete_missing_files" =>
       /\ index' = SelectSeq(index, LAMBDA r : r.file_path \in files)
       /\ ret'.val = Len(index) - Len(index')
       /\ get_stats(index').total_indexed = get_stats(index).total_indexed - ret'.val]_vars

\* a pass removed one row and kept another
C6_Witness ==
  /\ ret.op = "delete_missing_files"
  /\ ret.val = 1
  /\ Len(index) = 1

\* C7: from the return of a scan, as long as no file appears or disappears
\* and no row is garbage-collected since that scan's discovery, no step
\* (another scan's included) changes the index and no scan thread reaches
\* extract_text.
C7_RescanIsIdempotent ==
  [][(quiet /\ quiet') =>
       /\ index' = index
       /\ \A w \in Workers : pc'[w] \notin {"ocr", "insert", "add"}]_vars

\* a second scan is about to return, having skipped two files, with nothing
\* changed since the first scan's discovery
C7_Witness ==
  /\ quiet
  /\ ~changed
  /\ \E w \in Workers : pc[w] = "ret" /\ stats[w].skipped = 2

\* C8: the progress callback has been invoked once for each file the loop
\* has reached, the current one included before its existence check, with
\* current = 1, 2, ... in discovery order, total = number of discovered
\* files and the file's name; at the return once for every discovered file.
C8_ProgressOncePerFile ==
  \A w \in Workers :
     InLoop(w) =>
       LET reached == IF pc[w] \in {"check", "ocr", "insert", "add"} THEN i[w] + 1 ELSE i[w]
       IN  /\ progress[w] =
                [k \in 1..reached |->
                   [current |-> k, total |-> Len(images[w]),
                    filename |-> FileName(images[w][k])]]
           /\ pc[w] = "ret" => reached = Len(images[w])

\* a scan of two files, one skipped and one not, is about to return
C8_Witness ==
  \E w \in Workers :
     /\ pc[w] = "ret"
     /\ Len(progress[w]) = 2
     /\ stats[w].skipped = 1
     /\ stats[w].indexed = 1

Accepted(cand, date_filter, folder_filter, t) ==
  /\ ~FolderSkips(folder_filter, cand.file_path)
  /\ ~DateSkips(DateThreshold(date_filter, t), cand.indexed_date)

\* C9: search returns the first `limit` candidates, in the order of the
\* candidate list of at most limit * 10 rows, that pass the folder and date
\* filters.
C9_FirstLimitAccepted ==
  ret.op = "search" =>
    LET cands == Candidates(index, ret.query, ret.limit)
        pass == SelectSeq(cands, LAMBDA c :
                            Accepted(c, ret.date_filter, ret.folder_filter, now))
        want == Take(pass, ret.limit)
    IN  /\ Len(cands) <= ret.limit * OverFetch
        /\ Len(ret.val) <= ret.limit
        /\ ret.val = [k \in 1..Len(want) |-> ResultOf(want[k])]

\* more rows match than are fetched, the best-ranked candidate is filtered
\* out, and the result is cut at the limit
C9_Witness ==
  /\ ret.op = "search"
  /\ ret.limit = 1
  /\ Len(index) > OverFetch
  /\ Len(Candidates(index, ret.query, ret.limit)) = OverFetch
  /\ Len(ret.val) = 1
  /\ ret.val[1].file_path # Candidates(index, ret.query, ret.limit)[1].file_path

Threshold(date_filter, t) ==
  CASE date_filter = "today" -> Midnight(t)
    [] date_filter = "week" -> t - 7 * DAY
    [] date_filter = "month" -> t - 30 * DAY
    [] date_filter = "year" -> t - 365 * DAY

Instant(indexed_date) == indexed_date.date * DAY + indexed_date.time

\* C10: with date_filter today/week/month/year every returned entry whose
\* indexed_date parses was indexed at or after the threshold (start of the current day, or now minus
\* 7, 30, 365 days), and unless the limit was reached every candidate that
\* passes the folder filter and was indexed at or after the threshold is
\* returned; without a date filter no candidate is left out for its date.
C10_DateThreshold ==
  ret.op = "search" =>
    LET cands == Candidates(index, ret.query, ret.limit)
        returned == {ret.val[k].file_path : k \in 1..Len(ret.val)}
        parses(c) == c.indexed_date.time \in 0..(DAY - 1)
        recent(c) == \/ ret.date_filter = "none"
                     \/ parses(c) /\ Instant(c.indexed_date) >= Threshold(ret.date_filter, now)
    IN  /\ \A k \in 1..Len(cands) :
             (cands[k].file_path \in returned /\ parses(cands[k])) => recent(cands[k])
        /\ Len(ret.val) < ret.limit =>
             \A k \in 1..Len(cands) :
                (recent(cands[k]) /\ ~FolderSkips(ret.folder_filter, cands[k].file_path))
                   => cands[k].file_path \in returned

\* under 'today', of an entry indexed at midnight and one indexed a second
\* earlier, exactly the first is returned
C10_Witness ==
  /\ ret.op = "search"
  /\ ret.date_filter = "today"
  /\ ret.limit = 2
  /\ Len(index) = 2
  /\ Instant(index[1].indexed_date) = Midnight(now)
  /\ Instant(index[2].indexed_date) = Midnight(now) - 1
  /\ Len(ret.val) = 1
  /\ ret.val[1].file_path = index[1].file_path

\* C11: with a date filter active, a candidate whose indexed_date does not
\* parse is returned whenever it passes the folder filter and the limit has
\* not been reached, and the call returns its list all the same.
C11_MalformedDateKept ==
  (ret.op = "search" /\ ret.date_filter # "none") =>
    LET cands == Candidates(index, ret.query, ret.limit)
        returned == {ret.val[k].file_path : k \in 1..Len(ret.val)}
        malformed(c) == c.indexed_date.time < 0 \/ c.indexed_date.time >= DAY
        inFolder(c) == \/ ret.folder_filter \in {<<>>, AllFolders}
                       \/ Contains(c.file_path, ret.folder_filter)
    IN  /\ Len(ret.val) <= Len(cands)
        /\ Len(ret.val) < ret.limit =>
             \A k \in 1..Len(cands) :
                (malformed(cands[k]) /\ inFolder(cands[k]))
                   => cands[k].file_path \in returned

\* under 'week', of an entry with an unreadable date and one indexed before
\* the threshold, exactly the first is returned
C11_Witness ==
  /\ ret.op = "search"
  /\ ret.date_filter = "week"
  /\ ret.limit = 2
  /\ Len(index) = 2
  /\ index[1].indexed_date = BadStamp
  /\ Instant(index[2].indexed_date) = now - WeekDays * DAY - 1
  /\ Len(ret.val) = 1
  /\ ret.val[1].file_path = index[1].file_path

\* C12: with folder_filter set (a non-empty string other than the
\* 'All Folders' label, which search takes as no filter), every returned
\* entry has the filter as a substring of its file_path, and unless the limit
\* was reached every candidate whose path contains the filter and which the
\* date filter keeps is returned.
C12_FolderFilter ==
  (ret.op = "search" /\ ret.folder_filter \notin {<<>>, AllFolders}) =>
    LET cands == Candidates(index, ret.query, ret.limit)
        returned == {ret.val[k].file_path : k \in 1..Len(ret.val)}
        th == DateThreshold(ret.date_filter, now)
    IN  /\ \A k \in 1..Len(ret.val) :
             \E j \in 0..(Len(ret.val[k].file_path) - Len(ret.folder_filter)) :
                SubSeq(ret.val[k].file_path, j + 1, j + Len(ret.folder_filter))
                   = ret.folder_filter
        /\ Len(ret.val) < ret.limit =>
             \A k \in 1..Len(cands) :
                (Contains(cands[k].file_path, ret.folder_filter)
                   /\ ~DateSkips(th, cands[k].indexed_date))
                   => cands[k].file_path \in returned

\* a search below folder 2024 returned one entry and left out a candidate
\* of another folder
C12_Witness ==
  /\ ret.op = "search"
  /\ ret.folder_filter = <<"2024">>
  /\ ret.date_filter = "none"
  /\ ret.limit = 2
  /\ Len(ret.val) = 1
  /\ Len(Candidates(index, ret.query, ret.limit)) >= 2
  /\ \E k \in 1..Len(index) : index[k].file_path[1] = "2023"

\* C13: do_search goes on to database.search exactly when the text of the
\* search box has a character that is not white space; otherwise it shows
\* its message and leaves the displayed results and the index as they were.
C13_EmptyQueryRejected ==
  [][ret'.op = "do_search" =>
       LET blank == \A k \in 1..Len(ret'.raw) : ret'.raw[k] = " "
       IN  /\ ret'.searched <=> ~blank
           /\ blank => /\ results_frame' = results_frame
                       /\ index' = index
                       /\ ret'.message = "Please enter a search term"]_vars

\* a white-space query was rejected while an earlier search's entries were
\* on display
C13_Witness ==
  /\ ret.op = "do_search"
  /\ ret.raw = <<" ">>
  /\ ~ret.searched
  /\ Len(results_frame) = 2

\* C14: a failure of OCR or of file access on one discovered file never
\* aborts the scan: scan_and_index does not raise, it returns counters that
\* cover every discovered file, and a file whose extraction failed has a row
\* with empty text.
C14_FailureNeverAborts ==
  /\ \A w \in Workers : pc[w] # "raise"
  /\ ret.op = "scan_and_index" =>
       /\ "val" \in DOMAIN ret
       /\ Total(ret.val) = ret.total
  /\ \A p \in Paths :
       outcome[p] = "failed" =>
         is_indexed(index, p) /\ get_screenshot_text(index, p) = EmptyText

Running == {w \in Workers : pc[w] # "idle"}

\* C15: at most one scan thread exists at any time, and while one exists
\* is_scanning is set, so that start_scan returns without starting another;
\* the flag is clear only when no scan thread exists.
C15_OneScanAtATime ==
  /\ Cardinality(Running) <= 1
  /\ Running # {} => is_scanning
  /\ \A k \in 1..Len(afterQueue) : is_scanning

\* a later scan is in its loop, skipping a file of an earlier scan whose
\* completion callback has run
C15_Witness ==
  /\ is_scanning
  /\ afterQueue = <<>>
  /\ \E w \in Workers : pc[w] = "ocr" /\ stats[w].skipped = 1

\* C16: a scan thread has a transaction open only between the INSERT of
\* add_screenshot and its commit, never during discovery or OCR; a search
\* issued at any point returns exactly the committed rows that match, each
\* with its stored text, and a status query counts the committed rows.
C16_NoLockHeldDuringOcr ==
  /\ \A w \in Workers : pc[w] # "add" => txn[w] = <<>>
  /\ (ret.op = "search" /\ ret.folder_filter = <<>>) =>
       /\ {ret.val[k].file_path : k \in 1..Len(ret.val)}
            = {index[j].file_path : j \in {n \in 1..Len(index) :
                  \E m \in 1..Len(index[n].extracted_text) :
                     index[n].extracted_text[m] = ret.query}}
       /\ \A k \in 1..Len(ret.val) : \E j \in 1..Len(index) :
             /\ index[j].file_path = ret.val[k].file_path
             /\ index[j].extracted_text = ret.val[k].extracted_text
  /\ ret.op = "get_stats" => ret.val.total_indexed = Len(index)

\* a search issued while the scan thread is in the OCR of its second file
\* returned the row of the first
C16_Witness ==
  /\ ret.op = "search"
  /\ Len(ret.val) = 1
  /\ Len(index) = 1
  /\ \E w \in Workers : pc[w] = "ocr" /\ i[w] = 1 /\ stats[w].indexed = 1

\* C17: a step other than a garbage-collection pass leaves every row in
\* place and unchanged (rows are only added, after the existing ones), a
\* search or status query leaves the table as it is, and a
\* garbage-collection pass changes no row that it keeps.
C17_RowsNeverUpdated ==
  [][/\ ret'.op # "delete_missing_files" =>
           /\ Len(index') >= Len(index)
           /\ SubSeq(index', 1, Len(index)) = index
     /\ ret'.op \in {"search", "get_stats"} => index' = index
     /\ ret'.op = "delete_missing_files" =>
           \A k \in 1..Len(index') : \E j \in 1..Len(index) : index'[k] = index[j]]_vars

\* a scan has added a second row after a garbage-collection pass and an
\* earlier scan, and the first row still carries its earlier date
C17_Witness ==
  /\ Len(index) = 2
  /\ index[1].indexed_date = isoformat(0)
  /\ index[2].indexed_date = isoformat(1)
  /\ \E w \in Workers : pc[w] = "ret" /\ stats[w].skipped = 1

\* C20: every init_db call of a scan, whatever rows earlier scans and
\* garbage-collection passes have left, returns without raising and leaves
\* the table and its rows as they were.
C20_InitDbIdempotent ==
  [][\A w \in Workers :
       (pc[w] = "init" /\ pc'[w] # "init") =>
          /\ pc'[w] = "glob"
          /\ index' = index
          /\ tables' = tables]_vars

\* init_db has returned to a scan with two rows in the table
C20_Witness ==
  /\ Len(index) = 2
  /\ ScreenshotsTable \in tables
  /\ \E w \in Workers : pc[w] = "glob"

\* C18: get_all_images returns a duplicate-free list whose elements are
\* exactly the files whose suffix, compared without regard to case, is in
\* the allow-list.
C18_DiscoversAnyCase ==
  ret.op = "get_all_images" =>
    /\ \A a, b \in 1..Len(ret.val) : ret.val[a] = ret.val[b] => a = b
    /\ {ret.val[k] : k \in 1..Len(ret.val)}
         = {p \in files : ToLower(p[Len(p)]) \in IMAGE_EXTENSIONS}

\* the labels the tree calls for: one per directory of the first level and
\* one per directory of the second level
YearLabels ==
  {<<p[1]>> : p \in {q \in files : Len(q) >= 2 /\ q[2] = "/"}}
MonthLabels ==
  {<<p[1], "/", p[3]>> :
     p \in {q \in files : Len(q) >= 4 /\ q[2] = "/" /\ q[4] = "/"}}

\* the order of str on two labels
LabelLess(x, y) ==
  IF x[1] # y[1] THEN NameRank(x[1]) < NameRank(y[1])
  ELSE \/ Len(x) < Len(y)
       \/ Len(x) = 3 /\ Len(y) = 3 /\ NameRank(x[3]) < NameRank(y[3])

\* C19 as stated: 'All Folders' comes first, the other labels are exactly
\* those of the first-level and second-level directories, and they are in
\* reverse lexical order.
C19_ReverseLexical ==
  ret.op = "get_folders" =>
    /\ ret.val[1] = AllFolders
    /\ {ret.val[k] : k \in 2..Len(ret.val)} = YearLabels \cup MonthLabels
    /\ \A a, b \in 2..Len(ret.val) : a < b => LabelLess(ret.val[b], ret.val[a])

\* C19 as amended: 'All Folders' comes first, the other labels are exactly
\* those of the first-level and second-level directories, each once; the
\* first-level labels come in reverse lexical order of the directory names,
\* and each is followed at once by the labels of its own subdirectories, in
\* reverse lexical order of their names.
C19_GroupedByYear ==
  ret.op = "get_folders" =>
    /\ ret.val[1] = AllFolders
    /\ {ret.val[k] : k \in 2..Len(ret.val)} = YearLabels \cup MonthLabels
    /\ Len(ret.val) = 1 + Cardinality(YearLabels \cup MonthLabels)
    /\ \A a, b \in 2..Len(ret.val) :
         a < b =>
           LET x == ret.val[a]
               y == ret.val[b]
           IN  \/ NameRank(x[1]) > NameRank(y[1])
               \/ /\ x[1] = y[1]
                  /\ \/ Len(x) = 1
                     \/ Len(x) = 3 /\ Len(y) = 3 /\ NameRank(x[3]) > NameRank(y[3])

\* a tree with a file and a subdirectory inside 2024, next to 2023
C19_Witness ==
  /\ ret.op = "get_folders"
  /\ PT \in files
  /\ ret.val = <<AllFolders, <<"2024">>, <<"2024", "/", "03">>, <<"2023">>>>

\* C21: a scan started through start_scan ends with is_scanning reset, also
\* when scan_and_index raised: once the scan thread has exited and the
\* callback it scheduled has run, is_scanning is false, so that start_scan
\* can start a new scan.
C21_ScanEndsWithFlagReset ==
  (Running = {} /\ afterQueue = <<>>) => ~is_scanning

\* C22: search returns an entry only when its extracted_text holds the
\* query term; an entry stored with empty text is never returned.
C22_MatchesTextOnly ==
  ret.op = "search" =>
    \A k \in 1..Len(ret.val) :
       /\ ret.val[k].extracted_text # EmptyText
       /\ \E m \in 1..Len(ret.val[k].extracted_text) :
            ret.val[k].extracted_text[m] = ret.query

\* the rows of the result list that are the row of file p, however the
\* platform wrote its path
ShownFor(p) ==
  {k \in 1..Len(results_frame) :
     \E sep \in PathSeparators : results_frame[k].file_path = str_path(p, sep)}

\* C23: a search filtered by a label of get_folders shows every indexed
\* file that lies under that subfolder of the scanned root, and one
\* filtered by 'All Folders' shows every indexed file.
C23_LabelAcceptsItsFiles ==
  (ret.op = "do_search" /\ ret.searched) =>
    \A p \in files :
       (\/ ret.folder_filter = AllFolders
        \/ IsPrefix(ret.folder_filter \o <<"/">>, p))
         => ShownFor(p) # {}

====
